---------------------------- MODULE Spec2Model ----------------------------
(***************************************************************************)
(* A model of ReviewVocab (src/_Review_Vocab.py): the vocabulary line      *)
(* parser (FileParser, LangParser, ReviewItem), the response checker       *)
(* (ResponseChecker), the review sessions (ModeBase.review, PracticeMode,  *)
(* TranslateMode), the audio player (Audio) and the hint masker of the     *)
(* specification.  Each component has a specification of its own           *)
(* (SpecLang, SpecCheck, SpecFile, SpecReview, SpecAudio, SpecMask) in     *)
(* which the variables of the other components stay idle.                  *)
(*                                                                         *)
(* A Python str is modelled as a sequence of one-character strings, so     *)
(* "a|b." is <<"a", "|", "b", ".">>; a list[str] is a sequence of those.   *)
(***************************************************************************)
EXTENDS Integers, Sequences, FiniteSets, TLC

VARIABLES
    pc,               \* which operation has run ("start": none yet)
    text,             \* LangParser: the side fragment handed to the parser
    result,           \* LangParser.get_equivs: the returned list
    extra,            \* LangParser.get_extra: the returned string
    newtext,          \* LangParser._remove_parentheses: the returned string
    response,         \* ResponseChecker: the typed response
    valid_answers,    \* ResponseChecker: the accepted answers
    min_valid_score,  \* ResponseChecker.is_valid: the threshold of the call
    score,            \* ResponseChecker.get_score: the returned score
    valid,            \* ResponseChecker.is_valid: the returned flag
    sanitized,        \* ResponseChecker._sanitize: the returned string
    content,          \* FileParser: the text of the vocabulary file
    lines,            \* FileParser.get_valid_lines: the returned list
    item,             \* ReviewItem.parse: the returned items, in call order
    answer,           \* HintMasker.mask: the answer to mask
    hint_strength,    \* HintMasker.mask: the requested number of visible characters
    visible,          \* HintMasker.mask: the positions drawn to stay visible
    masked,           \* HintMasker.mask: the returned string
    talk_lock,        \* Audio._TALK_LOCK: 0 if unlocked, else the holding talk
    talks,            \* Audio.talk: one record per call, in call order
    talkfiles,        \* Audio.talk: the texts whose talk file exists
    mode,             \* the class of the review mode object
    config,           \* ModeBase._config
    review,           \* ModeBase._review, in iteration order
    curr_num,         \* ModeBase._curr_num
    missed,           \* PracticeMode._missed
    repeat,           \* PracticeMode._repeat: None, or <<s>> for the set s
    pos,              \* ModeBase.review: the number of items _iter_review has yielded
    correct,          \* _review_item, _do_listen, _do_translate: the local correct
    attempts,         \* _do_listen, _do_translate: the local attempts
    depth,            \* the number of calls of review() in progress
    log               \* what the session has shown and graded, for the claims

langVars == <<text, result, extra, newtext>>
checkVars == <<response, valid_answers, min_valid_score, score, valid, sanitized>>
fileVars == <<content, lines, item>>
maskVars == <<answer, hint_strength, visible, masked>>
audioVars == <<talk_lock, talks, talkfiles>>
reviewVars == <<mode, config, review, curr_num, missed, repeat, pos, correct,
                attempts, depth, log>>
extVars == <<maskVars, audioVars, reviewVars>>
vars == <<pc, text, result, extra, newtext, response, valid_answers,
          min_valid_score, score, valid, sanitized, content, lines, item,
          answer, hint_strength, visible, masked, talk_lock, talks, talkfiles,
          mode, config, review, curr_num, missed, repeat, pos, correct,
          attempts, depth, log>>

\* The variables of the response checker while it is not in use.
CheckIdle ==
    /\ response = <<>>
    /\ valid_answers = <<>>
    /\ min_valid_score = 0
    /\ score = 0
    /\ valid = FALSE
    /\ sanitized = <<>>

\* The variables of the parser while it is not in use.
LangIdle ==
    /\ text = <<>>
    /\ result = <<>>
    /\ extra = <<>>
    /\ newtext = <<>>

\* The variables of the file parser while it is not in use.
FileIdle ==
    /\ content = <<>>
    /\ lines = <<>>
    /\ item = <<>>

\* The variables of the hint masker while it is not in use.
MaskIdle ==
    /\ answer = <<>>
    /\ hint_strength = 0
    /\ visible = {}
    /\ masked = <<>>

\* The variables of the audio player while it is not in use.
AudioIdle ==
    /\ talk_lock = 0
    /\ talks = <<>>
    /\ talkfiles = {}

\* Python's None, and what the log holds before anything is logged.
None == <<>>

NoResponse ==
    [phase |-> "none", graded |-> FALSE, score |-> 0, min |-> 0,
     correct |-> FALSE, again |-> FALSE]

NoLog ==
    [origin |-> "none", prev_end |-> "none", prev_missed |-> {}, below |-> {},
     banner |-> <<>>, presented |-> <<>>, completed |-> 0, ended |-> FALSE,
     last |-> NoResponse]

\* The variables of a review mode while none is in use.
ReviewIdle ==
    /\ mode = "none"
    /\ config = None
    /\ review = <<>>
    /\ curr_num = 0
    /\ missed = {}
    /\ repeat = None
    /\ pos = 0
    /\ correct = FALSE
    /\ attempts = 0
    /\ depth = 0
    /\ log = NoLog

\* The variables of the components added to the parser and the checker,
\* while they are not in use.
ExtIdle == MaskIdle /\ AudioIdle /\ ReviewIdle

(***************************************************************************)
(* Bounds of the model.                                                    *)
(***************************************************************************)
MaxTextLen == 4       \* every text over TextAlphabet up to this length
MaxWords == 2         \* assembled texts: at most this many words
MaxResponseLen == 3   \* every response over CheckAlphabet up to this length
MaxAnswers == 2       \* at most this many accepted answers in a call
MaxContentLen == 4    \* every file content over FileAlphabet up to this length

(***************************************************************************)
(* Python str and list helpers.                                            *)
(***************************************************************************)
\* Characters str.strip() and str.split() treat as whitespace.
IsSpace(c) == c \in {" ", "\n", "\t"}

\* All strings over alphabet A of length at most n.
StringsUpTo(A, n) == UNION {[1..k -> A] : k \in 0..n}

\* str.lstrip()
RECURSIVE LStrip(_)
LStrip(s) ==
    IF s # <<>> /\ IsSpace(Head(s)) THEN LStrip(Tail(s)) ELSE s

\* str.rstrip()
RECURSIVE RStrip(_)
RStrip(s) ==
    IF s # <<>> /\ IsSpace(s[Len(s)]) THEN RStrip(SubSeq(s, 1, Len(s) - 1)) ELSE s

\* str.strip()
Strip(s) == RStrip(LStrip(s))

\* c in s
Contains(s, c) == \E i \in 1..Len(s) : s[i] = c

\* s.find(c) as a 1-based index, 0 when c does not occur
Find(s, c) ==
    IF Contains(s, c)
    THEN CHOOSE i \in 1..Len(s) : s[i] = c /\ \A j \in 1..(i - 1) : s[j] # c
    ELSE 0

\* s.split(sep) for a one-character sep: empty pieces are kept, "" gives [""]
RECURSIVE SplitOn(_, _)
SplitOn(s, sep) ==
    LET i == Find(s, sep)
    IN  IF i = 0 THEN <<s>>
        ELSE <<SubSeq(s, 1, i - 1)>> \o SplitOn(SubSeq(s, i + 1, Len(s)), sep)

\* The length of the longest prefix of s holding no whitespace.
RECURSIVE WordLen(_)
WordLen(s) ==
    IF s = <<>> \/ IsSpace(Head(s)) THEN 0 ELSE 1 + WordLen(Tail(s))

\* s.split(): the maximal runs of non-whitespace, no empty pieces
RECURSIVE SplitWS(_)
SplitWS(s) ==
    LET t == LStrip(s)
        n == WordLen(t)
    IN  IF t = <<>> THEN <<>>
        ELSE <<SubSeq(t, 1, n)>> \o SplitWS(SubSeq(t, n + 1, Len(t)))

\* sep.join(parts)
RECURSIVE Join(_, _)
Join(parts, sep) ==
    IF parts = <<>> THEN <<>>
    ELSE IF Len(parts) = 1 THEN parts[1]
    ELSE parts[1] \o sep \o Join(Tail(parts), sep)

\* The concatenation of a list of lists (result += ... in a loop).
RECURSIVE Flatten(_)
Flatten(ls) == IF ls = <<>> THEN <<>> ELSE Head(ls) \o Flatten(Tail(ls))

\* A product whose leftmost list varies fastest.
RECURSIVE product_leftmost_fastest(_)
product_leftmost_fastest(lists) ==
    IF lists = <<>> THEN << <<>> >>
    ELSE LET rest == product_leftmost_fastest(Tail(lists))
             n == Len(rest)
             k == Len(Head(lists))
         IN  [i \in 1..(k * n) |->
                 <<Head(lists)[((i - 1) % k) + 1]>> \o rest[((i - 1) \div k) + 1]]

\* itertools.product(*lists): the tuples in lexicographic index order, the
\* leftmost list varying slowest.
RECURSIVE product(_)
product(lists) ==
    IF lists = <<>> THEN << <<>> >>
    ELSE LET rest == product(Tail(lists))
             n == Len(rest)
             k == Len(Head(lists))
         IN  [i \in 1..(k * n) |->
                 <<Head(lists)[((i - 1) \div n) + 1]>> \o rest[((i - 1) % n) + 1]]

(***************************************************************************)
(* The two regular expressions of LangParser.                              *)
(***************************************************************************)
\* The greedy r"\(.*\)" tried at index i: the last ")" that can close it.
GreedyDotEnd(s, i) ==
    IF i > Len(s) \/ s[i] # "(" THEN 0
    ELSE LET ends == {j \in (i + 1)..Len(s) :
                         s[j] = ")" /\ \A k \in (i + 1)..(j - 1) : s[k] # "\n"}
         IN  IF ends = {} THEN 0
             ELSE CHOOSE j \in ends : \A e \in ends : j >= e

\* r"\(.*?\)" tried at index i: the index of the closing ")" of the lazy
\* match, 0 when there is none.  "." matches any character but "\n".
LazyDotEnd(s, i) ==
    IF i > Len(s) \/ s[i] # "(" THEN 0
    ELSE LET ends == {j \in (i + 1)..Len(s) :
                         s[j] = ")" /\ \A k \in (i + 1)..(j - 1) : s[k] # "\n"}
         IN  IF ends = {} THEN 0
             ELSE CHOOSE j \in ends : \A e \in ends : j <= e

\* r"\([^)]*\)" tried at index i: the index of the closing ")", 0 when there
\* is none.  The class [^)] matches "\n" too.
NegClassEnd(s, i) ==
    IF i > Len(s) \/ s[i] # "(" THEN 0
    ELSE LET run == CHOOSE j \in i..Len(s) :
                        /\ \A k \in (i + 1)..j : s[k] # ")"
                        /\ (j = Len(s) \/ s[j + 1] = ")")
         IN  IF run < Len(s) THEN run + 1 ELSE 0

\* re.findall(r"\(.*?\)", s) from index i on: the matches, left to right,
\* not overlapping.
RECURSIVE findall(_, _)
findall(s, i) ==
    IF i > Len(s) THEN <<>>
    ELSE LET j == LazyDotEnd(s, i)
         IN  IF j = 0 THEN findall(s, i + 1)
             ELSE <<SubSeq(s, i, j)>> \o findall(s, j + 1)

\* The matches re.sub(r"\([^)]*\)", "", s) replaces, from index i on.
RECURSIVE sub_matches(_, _)
sub_matches(s, i) ==
    IF i > Len(s) THEN <<>>
    ELSE LET j == NegClassEnd(s, i)
         IN  IF j = 0 THEN sub_matches(s, i + 1)
             ELSE <<SubSeq(s, i, j)>> \o sub_matches(s, j + 1)

\* re.sub(r"\([^)]*\)", "", s) from index i on: s without the matches.
RECURSIVE sub_remove(_, _)
sub_remove(s, i) ==
    IF i > Len(s) THEN <<>>
    ELSE LET j == NegClassEnd(s, i)
         IN  IF j = 0 THEN <<s[i]>> \o sub_remove(s, i + 1)
             ELSE sub_remove(s, j + 1)

(***************************************************************************)
(* LangParser                                                              *)
(***************************************************************************)
\* The characters _split_equiv_tokens copies: ",.!?"
Punct == {",", ".", "!", "?"}

\* LangParser.get_extra
get_extra(t) == Join(findall(t, 1), <<" ">>)

\* LangParser._remove_parentheses
remove_parentheses(t) == Strip(sub_remove(t, 1))

\* LangParser._split_equivalents
split_equivalents(t) == SplitOn(t, "/")

\* punct_to_add of _split_equiv_tokens: the loop over reversed(equivs[-1])
\* inserts every character of the last candidate that is in ",.!?" at the
\* front, so the list holds all of them in their original order.
RECURSIVE punct_to_add(_)
punct_to_add(last) ==
    IF last = <<>> THEN <<>>
    ELSE (IF Head(last) \in Punct THEN <<Head(last)>> ELSE <<>>)
             \o punct_to_add(Tail(last))

\* LangParser._split_equiv_tokens
split_equiv_tokens(token) ==
    LET equivs == SplitOn(token, "|")
        punct == punct_to_add(equivs[Len(equivs)])
    IN  IF punct = <<>> THEN equivs
        ELSE [i \in 1..Len(equivs) |->
                 IF i < Len(equivs) THEN equivs[i] \o punct ELSE equivs[i]]

\* The list `tokens` of _separate_equiv_words: one candidate list per
\* whitespace-delimited token.
equiv_tokens(t) ==
    LET words == SplitWS(Strip(t))
    IN  [j \in 1..Len(words) |->
            IF Contains(words[j], "|") THEN split_equiv_tokens(words[j])
            ELSE <<words[j]>>]

\* LangParser._separate_equiv_words
separate_equiv_words(t) ==
    IF ~Contains(t, "|") THEN <<t>>
    ELSE LET combos == product(equiv_tokens(t))
         IN  [i \in 1..Len(combos) |-> Join(combos[i], <<" ">>)]

\* LangParser.get_equivs
get_equivs(t) ==
    LET phrases == split_equivalents(remove_parentheses(t))
    IN  Flatten([p \in 1..Len(phrases) |-> separate_equiv_words(phrases[p])])

(***************************************************************************)
(* ResponseChecker                                                         *)
(***************************************************************************)
\* re.UNICODE, which _sanitize hands to re.sub in the position of `count`.
ReUnicode == 32

\* The default of is_valid's min_valid_score.
DefaultMinValidScore == 100

\* The characters the pattern [^ a-z0-9] leaves alone.
Allowed ==
    {" ", "a", "b", "c", "d", "e", "f", "g", "h", "i", "j", "k", "l", "m",
     "n", "o", "p", "q", "r", "s", "t", "u", "v", "w", "x", "y", "z",
     "0", "1", "2", "3", "4", "5", "6", "7", "8", "9"}

\* str.lower() of one character.
lower_char(c) ==
    CASE c = "A" -> "a"
      [] c = "H" -> "h"
      [] c = "É" -> "é"
      [] OTHER -> c

\* unidecode() of one character: its closest ASCII rendering.
unidecode_char(c) ==
    CASE c = "é" -> <<"e">>
      [] c = "É" -> <<"E">>
      [] OTHER -> <<c>>

\* txt.lower()
lower(txt) == [i \in 1..Len(txt) |-> lower_char(txt[i])]

\* unidecode(txt)
unidecode(txt) == Flatten([i \in 1..Len(txt) |-> unidecode_char(txt[i])])

\* re.sub(r'[^ a-z0-9]', '', txt, count): the first `count` characters the
\* pattern matches are removed (count is positive here).
RECURSIVE re_sub(_, _)
re_sub(txt, count) ==
    IF txt = <<>> THEN <<>>
    ELSE IF Head(txt) \notin Allowed /\ count > 0
         THEN re_sub(Tail(txt), count - 1)
         ELSE <<Head(txt)>> \o re_sub(Tail(txt), count)

\* ResponseChecker._sanitize
sanitize(txt) == re_sub(unidecode(Strip(lower(txt))), ReUnicode)

Max2(a, b) == IF a >= b THEN a ELSE b

\* One row of the longest-common-subsequence table: prev is the row above,
\* c the character of this row, cur the cells of this row filled so far
\* (column 0 first).
RECURSIVE lcs_row(_, _, _, _)
lcs_row(prev, c, s2, cur) ==
    LET j == Len(cur)
    IN  IF j > Len(s2) THEN cur
        ELSE lcs_row(prev, c, s2,
                     Append(cur, IF c = s2[j] THEN prev[j] + 1
                                 ELSE Max2(prev[j + 1], cur[j])))

\* The length of the longest common subsequence of s1 and s2.
RECURSIVE lcs_from(_, _, _, _)
lcs_from(s1, s2, i, prev) ==
    IF i > Len(s1) THEN prev[Len(s2) + 1]
    ELSE lcs_from(s1, s2, i + 1, lcs_row(prev, s1[i], s2, <<0>>))

lcs(s1, s2) == lcs_from(s1, s2, 1, [j \in 1..(Len(s2) + 1) |-> 0])

\* int(round(num / den)): Python rounds halves to the even neighbour.
round_div(num, den) ==
    LET q == num \div den
        r == num % den
    IN  IF 2 * r > den \/ (2 * r = den /\ q % 2 = 1) THEN q + 1 ELSE q

\* fuzz.ratio(s1, s2) of thefuzz: 100 * 2 * LCS / (len(s1) + len(s2)),
\* rounded; two empty strings are fully similar.
fuzz_ratio(s1, s2) ==
    IF Len(s1) + Len(s2) = 0 THEN 100
    ELSE round_div(200 * lcs(s1, s2), Len(s1) + Len(s2))

\* max(ratios) for a non-empty list
RECURSIVE max(_)
max(ratios) ==
    IF Len(ratios) = 1 THEN ratios[1] ELSE Max2(ratios[1], max(Tail(ratios)))

\* A get_score that returns the score of the first accepted answer only.
get_score_first(resp, answers) == fuzz_ratio(sanitize(resp), sanitize(answers[1]))

\* ResponseChecker.get_score
get_score(resp, answers) ==
    LET sanitized_response == sanitize(resp)
        sanitized_answers == [i \in 1..Len(answers) |-> sanitize(answers[i])]
        ratios == [i \in 1..Len(answers) |->
                      fuzz_ratio(sanitized_response, sanitized_answers[i])]
    IN  max(ratios)

\* ResponseChecker.is_valid
is_valid(resp, answers, min_score) == get_score(resp, answers) >= min_score

(***************************************************************************)
(* The calls the response checker is run on.                               *)
(***************************************************************************)
CheckAlphabet == {"a", "A", "é", " ", "."}

\* Accepted answers that calls are assembled from.
AnswerPool == { <<"a">>, <<"a", " ", ".">>, <<"A", "é">> }

\* The thresholds is_valid is called with, besides its default.
Thresholds == {50, 90, 95}

Repeat(c, n) == [i \in 1..n |-> c]

\* Responses with more characters to remove than re.sub's count.
LongResponses == {Repeat(".", n) : n \in {ReUnicode, ReUnicode + 1}}

Responses == StringsUpTo(CheckAlphabet, MaxResponseLen) \cup LongResponses

AnswerLists == UNION {[1..n -> AnswerPool] : n \in 1..MaxAnswers}

\* The calls of tests/responsechecker_tests.py.
HelloWorld == <<"h", "e", "l", "l", "o", " ", "w", "o", "r", "l", "d">>
HeloWorld == <<"h", "e", "l", "o", " ", "w", "o", "r", "l", "d">>
Hello == <<"h", "e", "l", "l", "o">>

TestCalls ==
    { <<HeloWorld, <<HelloWorld>>>>,
      <<HeloWorld, <<Hello, HelloWorld>>>>,
      <<Hello, << <<"h", "e", "l", "l", "é">> >>>>,
      <<Hello, << <<"H", "e", "l", "l", "o", ".">> >>>>,
      <<Hello, << <<"H", "e", "L", "l", "O">> >>>> }

Calls == (Responses \X AnswerLists) \cup TestCalls

(***************************************************************************)
(* ResponseChecker as a state machine: one call per behaviour.             *)
(***************************************************************************)
InitCheck ==
    /\ pc = "start"
    /\ \E call \in Calls :
           /\ response = call[1]
           /\ valid_answers = call[2]
    /\ min_valid_score = 0
    /\ score = 0
    /\ valid = FALSE
    /\ sanitized = <<>>
    /\ LangIdle
    /\ FileIdle
    /\ ExtIdle

\* sanitized = ResponseChecker._sanitize(response)
Sanitize ==
    /\ pc = "start"
    /\ pc' = "sanitize"
    /\ sanitized' = sanitize(response)
    /\ UNCHANGED <<response, valid_answers, min_valid_score, score, valid, langVars, fileVars, extVars>>

\* score = ResponseChecker.get_score(response, valid_answers)
GetScore ==
    /\ pc = "start"
    /\ pc' = "get_score"
    /\ score' = get_score(response, valid_answers)
    /\ UNCHANGED <<response, valid_answers, min_valid_score, valid, sanitized, langVars, fileVars, extVars>>

\* valid = ResponseChecker.is_valid(response, valid_answers[, t])
IsValid ==
    /\ pc = "start"
    /\ pc' = "is_valid"
    /\ \E t \in Thresholds \cup {DefaultMinValidScore} :
           /\ min_valid_score' = t
           /\ score' = get_score(response, valid_answers)
           /\ valid' = is_valid(response, valid_answers, t)
    /\ UNCHANGED <<response, valid_answers, sanitized, langVars, fileVars, extVars>>

NextCheck == Sanitize \/ GetScore \/ IsValid

SpecCheck == InitCheck /\ [][NextCheck]_vars

(***************************************************************************)
(* The texts the parser is run on.                                         *)
(***************************************************************************)
TextAlphabet == {"a", " ", "|", "/", ".", "(", ")"}

\* Words and separators that texts are assembled from.
TextWords ==
    { <<"a">>, <<"b", ".">>, <<"a", "|", "b">>, <<"a", "|", "b", ".">>,
      <<"a", "|", "b", "|", "c", "!">>, <<"(", "x", ")">> }

TextSeps == { <<" ">>, <<" ", " ">>, <<"/">>, <<" ", "/", " ">> }

RECURSIVE Assembled(_)
Assembled(n) ==
    IF n = 0 THEN {}
    ELSE TextWords \cup
         {t \o s \o w : t \in Assembled(n - 1), s \in TextSeps, w \in TextWords}

\* Texts that span lines, and the texts of tests/langparser_tests.py.
TextSpecials ==
    { <<"(", "\n", ")">>, <<"(", "a", "\n", ")", "(", "b", ")">>,
      <<"H", "i", "|", "Y", "o", " ", "y", "o", "u", ".">> }

Texts == StringsUpTo(TextAlphabet, MaxTextLen) \cup Assembled(MaxWords)
             \cup TextSpecials

(***************************************************************************)
(* LangParser as a state machine: one call per behaviour.                  *)
(***************************************************************************)
InitLang ==
    /\ pc = "start"
    /\ text \in Texts
    /\ result = <<>>
    /\ extra = <<>>
    /\ newtext = <<>>
    /\ CheckIdle
    /\ FileIdle
    /\ ExtIdle

\* result = LangParser.get_equivs(text)
GetEquivs ==
    /\ pc = "start"
    /\ pc' = "get_equivs"
    /\ result' = get_equivs(text)
    /\ UNCHANGED <<text, extra, newtext, checkVars, fileVars, extVars>>

\* extra = LangParser.get_extra(text)
GetExtra ==
    /\ pc = "start"
    /\ pc' = "get_extra"
    /\ extra' = get_extra(text)
    /\ UNCHANGED <<text, result, newtext, checkVars, fileVars, extVars>>

\* newtext = LangParser._remove_parentheses(text)
RemoveParentheses ==
    /\ pc = "start"
    /\ pc' = "removed"
    /\ newtext' = remove_parentheses(text)
    /\ UNCHANGED <<text, result, extra, checkVars, fileVars, extVars>>

\* extra = LangParser.get_extra(newtext): extraction applied to the core text
ReExtract ==
    /\ pc = "removed"
    /\ pc' = "re_extract"
    /\ extra' = get_extra(newtext)
    /\ UNCHANGED <<text, result, newtext, checkVars, fileVars, extVars>>

NextLang == GetEquivs \/ GetExtra \/ RemoveParentheses \/ ReExtract

SpecLang == InitLang /\ [][NextLang]_vars


(***************************************************************************)
(* FileParser and ReviewItem                                               *)
(***************************************************************************)
\* content.splitlines(): the pieces between line ends; a line end at the
\* very end of the content opens no further line.
splitlines(c) ==
    LET pieces == SplitOn(c, "\n")
    IN  IF pieces[Len(pieces)] = <<>> THEN SubSeq(pieces, 1, Len(pieces) - 1)
        ELSE pieces

\* line.count(";")
count(line, c) == Cardinality({i \in 1..Len(line) : line[i] = c})

\* line.startswith(prefix)
startswith(line, prefix) ==
    Len(line) >= Len(prefix) /\ SubSeq(line, 1, Len(prefix)) = prefix

\* An _is_line_valid that accepts any line holding a ';'.
is_line_valid_any_count(line) ==
    /\ line # <<>>
    /\ count(line, ";") >= 1
    /\ ~startswith(line, <<"/", "/">>)
    /\ ~startswith(line, <<"#">>)

\* FileParser._is_line_valid
is_line_valid(line) ==
    /\ line # <<>>
    /\ count(line, ";") = 1
    /\ ~startswith(line, <<"/", "/">>)
    /\ ~startswith(line, <<"#">>)

\* The loop of get_valid_lines over the lines from index i on.
RECURSIVE valid_lines_from(_, _)
valid_lines_from(ls, i) ==
    IF i > Len(ls) THEN <<>>
    ELSE (IF is_line_valid(ls[i]) THEN <<Strip(ls[i])>> ELSE <<>>)
             \o valid_lines_from(ls, i + 1)

\* FileParser.get_valid_lines
get_valid_lines(c) == valid_lines_from(splitlines(c), 1)

\* LanguageName(): the defaults of its fields.
LanguageName == [short |-> <<"e", "n">>, full |-> <<"E", "n", "g", "l", "i", "s", "h">>]

\* ReviewItem._get_lang_index
get_lang_index(langnum) ==
    LET idx == langnum - 1
    IN  IF idx = 0 \/ idx = 1 THEN idx ELSE 0

\* line.split(";")[idx], idx counted from 0
side(line, idx) == SplitOn(line, ";")[idx + 1]

\* ReviewItem._get_equivs
item_get_equivs(line, langnum) == get_equivs(side(line, get_lang_index(langnum)))

\* ReviewItem._get_extra
item_get_extra(line, langnum) == get_extra(side(line, get_lang_index(langnum)))

\* ReviewItem.parse: the items it can return, one per outcome of the two
\* random.choice calls.
parse(line, lang1, lang2) ==
    LET lang1_equivs == item_get_equivs(line, 1)
        lang2_equivs == item_get_equivs(line, 2)
    IN  { [line |-> line,
           lang1 |-> lang1,
           lang1_choice |-> lang1_equivs[c1],
           lang1_equivs |-> lang1_equivs,
           lang1_extra |-> item_get_extra(line, 1),
           lang2 |-> lang2,
           lang2_choice |-> lang2_equivs[c2],
           lang2_equivs |-> lang2_equivs,
           lang2_extra |-> item_get_extra(line, 2)] :
          c1 \in 1..Len(lang1_equivs), c2 \in 1..Len(lang2_equivs) }

\* ReviewItem.__eq__, generated by @dataclass: the tuples of all nine fields
\* are compared.
item_eq(a, b) == a = b

\* ReviewItem.__hash__: hash(line) + hash(lang1) + hash(lang2), a value that
\* is fixed by these three fields.
item_hash(it) == <<it.line, it.lang1, it.lang2>>

\* set.add(it): it is stored unless the set holds an element with the same
\* hash that compares equal to it.
set_add(s, it) ==
    IF \E other \in s : item_hash(other) = item_hash(it) /\ item_eq(other, it)
    THEN s
    ELSE s \cup {it}

(***************************************************************************)
(* The file contents the parser is run on.                                 *)
(***************************************************************************)
FileAlphabet == {"a", ";", "#", "/", " ", "\n"}

ContentSpecials ==
    { <<"(", "x", ")", ";", "a">>,
      <<"a", "|", "b", ";", "(", "x", ")", " ", "a", "/", "b", "\n">>,
      <<"#", "a", ";", "a", "\n", " ", "a", ";", "a", " ", "\n", "a", ";", "a", ";", "a">> }

Contents == StringsUpTo(FileAlphabet, MaxContentLen) \cup ContentSpecials

(***************************************************************************)
(* Loading a file: get_valid_lines, then ReviewItem.parse of a line.       *)
(***************************************************************************)
InitFile ==
    /\ pc = "start"
    /\ content \in Contents
    /\ lines = <<>>
    /\ item = <<>>
    /\ LangIdle
    /\ CheckIdle
    /\ ExtIdle

\* lines = FileParser.get_valid_lines(content)
GetValidLines ==
    /\ pc = "start"
    /\ pc' = "lines"
    /\ lines' = get_valid_lines(content)
    /\ UNCHANGED <<content, item, langVars, checkVars, extVars>>

\* item = ReviewItem.parse(l, lang1, lang2) for one of the valid lines
Parse ==
    /\ pc = "lines"
    /\ pc' = "parsed"
    /\ \E i \in 1..Len(lines) :
           \E it \in parse(lines[i], LanguageName, LanguageName) : item' = <<it>>
    /\ UNCHANGED <<content, lines, langVars, checkVars, extVars>>

\* A second ReviewItem.parse of the line the first item came from, with the
\* same languages (the line is listed twice, or the file is loaded again).
ParseAgain ==
    /\ pc = "parsed"
    /\ pc' = "parsed_again"
    /\ \E it \in parse(item[1].line, item[1].lang1, item[1].lang2) :
           item' = Append(item, it)
    /\ UNCHANGED <<content, lines, langVars, checkVars, extVars>>

NextFile == GetValidLines \/ Parse \/ ParseAgain

SpecFile == InitFile /\ [][NextFile]_vars

(***************************************************************************)
(* What the specification says the expansion of a text is, stated by       *)
(* position instead of by construction.                                    *)
(***************************************************************************)
\* No parenthesized span: no "(" with a ")" somewhere after it.
AnnotationFree(t) ==
    ~\E i \in 1..Len(t) : \E j \in (i + 1)..Len(t) : t[i] = "(" /\ t[j] = ")"

NoNewline(t) == ~Contains(t, "\n")

IsWord(w) == w # <<>>

\* The whitespace-delimited words of every string of a list.
WordsOf(list) == [i \in 1..Len(list) |-> SplitWS(list[i])]

RECURSIVE Prod(_)
Prod(ks) == IF ks = <<>> THEN 1 ELSE Head(ks) * Prod(Tail(ks))

RECURSIVE Sum(_)
Sum(ks) == IF ks = <<>> THEN 0 ELSE Head(ks) + Sum(Tail(ks))

\* The number of '|'-separated candidates of a token.
NumCandidates(tok) == Cardinality({i \in 1..Len(tok) : tok[i] = "|"}) + 1

\* k1 * ... * kn for the tokens of a phrase.
PhraseCount(phrase) ==
    LET toks == SplitWS(phrase)
    IN  Prod([j \in 1..Len(toks) |-> NumCandidates(toks[j])])

\* The '|'-separated candidates of a token, as written.
RawCandidates(tok) == SplitOn(tok, "|")

\* The trailing run of punctuation characters of a candidate.
RECURSIVE TrailingPunct(_)
TrailingPunct(c) ==
    IF c # <<>> /\ c[Len(c)] \in Punct
    THEN TrailingPunct(SubSeq(c, 1, Len(c) - 1)) \o <<c[Len(c)]>>
    ELSE <<>>

\* Every punctuation character of a candidate, in order.
IsPunct(ch) == ch \in Punct
AllPunct(c) == SelectSeq(c, IsPunct)

\* The candidates with the trailing punctuation of the final one copied
\* onto the others.
TrailingCopied(tok) ==
    LET raw == RawCandidates(tok)
        k == Len(raw)
    IN  [i \in 1..k |-> IF i < k THEN raw[i] \o TrailingPunct(raw[k]) ELSE raw[k]]

\* The candidates with every punctuation character of the final one copied
\* onto the others.
AllCopied(tok) ==
    LET raw == RawCandidates(tok)
        k == Len(raw)
    IN  [i \in 1..k |-> IF i < k THEN raw[i] \o AllPunct(raw[k]) ELSE raw[k]]

\* The words of the strings a phrase contributes: string number i takes from
\* token j the candidate that is digit j of i in the mixed radix k1..kn, so
\* that the leftmost token varies slowest.  Cand(tok, last) gives the
\* candidates of a token; last says whether it is the phrase's last token.
PhraseExpected(phrase, Cand(_, _)) ==
    LET toks == SplitWS(phrase)
        n == Len(toks)
        cands == [j \in 1..n |-> Cand(toks[j], j = n)]
        k == [j \in 1..n |-> Len(cands[j])]
        weight(j) == Prod(SubSeq(k, j + 1, n))
    IN  [i \in 1..Prod(k) |->
            SelectSeq([j \in 1..n |-> cands[j][(((i - 1) \div weight(j)) % k[j]) + 1]],
                      IsWord)]

\* The words of the strings a text expands to: its phrases' in phrase order.
ExpectedWords(t, Cand(_, _)) ==
    LET phrases == SplitOn(t, "/")
    IN  Flatten([p \in 1..Len(phrases) |-> PhraseExpected(phrases[p], Cand)])

ExpectedCount(t) ==
    LET phrases == SplitOn(t, "/")
    IN  Sum([p \in 1..Len(phrases) |-> PhraseCount(phrases[p])])

\* Candidates as the claim C1 reads: a token's candidates are the pieces
\* between its '|'; only the last token's carry copied punctuation.
CandLastOnly(tok, last) == IF last THEN AllCopied(tok) ELSE RawCandidates(tok)

\* Candidates with the punctuation copied in every token.
CandEveryToken(tok, last) == AllCopied(tok)

\* Candidates as the claim C2 reads: in the last token the trailing run of
\* the final candidate is copied.
CandTrailingRun(tok, last) == IF last THEN TrailingCopied(tok) ELSE AllCopied(tok)

C2_TrailingPunctuation ==
    (pc = "get_equivs" /\ AnnotationFree(text)) =>
        WordsOf(result) = ExpectedWords(text, CandTrailingRun)

\* C3: every string get_equivs returns is its words joined by single
\* spaces: no leading or trailing whitespace, no run of whitespace.
\* Violated: "a /" gives "a " and "".
C3_SingleSpaces ==
    pc = "get_equivs" =>
        \A i \in 1..Len(result) : result[i] = Join(SplitWS(result[i]), <<" ">>)

\* C10: extracting the annotation from the core text yields the empty
\* string, and get_extra returns, joined by single spaces, exactly the spans
\* that _remove_parentheses removes from a fragment of a line, in order.
C10_ExtractionIdempotent ==
    /\ pc = "re_extract" => extra = <<>>
    /\ (pc = "get_extra" /\ NoNewline(text)) =>
           extra = Join(sub_matches(text, 1), <<" ">>)

\* C10 witness: a fragment with a span was split, its core text still holds
\* a parenthesis, and the annotation was extracted from that core text.
C10_Witness ==
    /\ pc = "re_extract"
    /\ sub_matches(text, 1) # <<>>
    /\ \E i \in 1..Len(newtext) : newtext[i] \in {"(", ")"}


(***************************************************************************)
(* Claims about ResponseChecker, checked under SpecCheck.                  *)
(***************************************************************************)
\* A string with its letters lowercased and unaccented and every character
\* that is not a letter, digit or space left out, wherever it stands.
Fold(s) == SelectSeq(unidecode(lower(s)), LAMBDA c : c \in Allowed)

\* Two strings that differ only in letter case, diacritics or punctuation.
DiffersOnlyInForm(s, t) == Fold(s) = Fold(t)

\* C4: at the default threshold, is_valid is true whenever the response
\* differs from an accepted answer only in case, diacritics or punctuation.
\* Violated: is_valid("a ", ["a ."]) is false.
C4_IgnoresForm ==
    (/\ pc = "is_valid"
     /\ min_valid_score = DefaultMinValidScore
     /\ \E i \in 1..Len(valid_answers) : DiffersOnlyInForm(response, valid_answers[i]))
        => valid

\* C5: is_valid is true exactly when some accepted answer's similarity to
\* the response, both sanitized, is at least the threshold; the score is in
\* 0..100; a response valid at a threshold is valid at every lower one.
C5_ThresholdOnMaximum ==
    pc = "is_valid" =>
        /\ valid <=> \E i \in 1..Len(valid_answers) :
               fuzz_ratio(sanitize(response), sanitize(valid_answers[i]))
                   >= min_valid_score
        /\ \A i \in 1..Len(valid_answers) :
               fuzz_ratio(sanitize(response), sanitize(valid_answers[i])) <= score
        /\ score \in 0..100
        /\ valid => \A t \in Thresholds \cup {DefaultMinValidScore} :
               t <= min_valid_score => is_valid(response, valid_answers, t)

\* C5 witness: a response judged valid at 95 through its second accepted
\* answer, and not valid at 100.
C5_Witness ==
    /\ pc = "is_valid"
    /\ min_valid_score = 95
    /\ valid
    /\ Len(valid_answers) = 2
    /\ fuzz_ratio(sanitize(response), sanitize(valid_answers[1])) < 95
    /\ ~is_valid(response, valid_answers, DefaultMinValidScore)

\* C6: the result of _sanitize holds only a-z, 0-9 and space.
\* Violated: 33 periods are sanitized to one period.
C6_OnlyAllowedCharacters ==
    pc = "sanitize" => \A i \in 1..Len(sanitized) : sanitized[i] \in Allowed

\* C7: _sanitize(_sanitize(s)) = _sanitize(s), stated here for the strings
\* short enough for re.sub's count not to matter.
\* Violated: "a ." is sanitized to "a ", and that to "a".
C7_SanitizeIdempotent ==
    (pc = "sanitize" /\ Len(response) <= ReUnicode) =>
        sanitize(sanitized) = sanitized


(***************************************************************************)
(* Claims about FileParser and ReviewItem, checked under SpecFile.         *)
(***************************************************************************)
IsBlank(line) == Strip(line) = <<>>

BeginsWithComment(line) ==
    startswith(line, <<"#">>) \/ startswith(line, <<"/", "/">>)

\* A line the loader is to keep.
Wanted(line) ==
    count(line, ";") = 1 /\ ~IsBlank(line) /\ ~BeginsWithComment(line)

\* C8: get_valid_lines returns, in source order, the trimmed form of exactly
\* the lines that hold one ';', are not blank and do not begin with '#' or
\* '//', so that no returned line is blank, begins with a comment prefix or
\* holds a number of ';' other than one.
\* Violated: the line " #;" is returned as "#;".
C8_ValidLines ==
    pc = "lines" =>
        /\ LET kept == SelectSeq(splitlines(content), Wanted)
           IN  lines = [i \in 1..Len(kept) |-> Strip(kept[i])]
        /\ \A i \in 1..Len(lines) :
               /\ ~IsBlank(lines[i])
               /\ ~BeginsWithComment(lines[i])
               /\ count(lines[i], ";") = 1

\* A side without scored text: nothing is left of it once its annotations
\* are removed and it is trimmed.
NoScoredText(fragment) == remove_parentheses(fragment) = <<>>

\* An equivalence set that is empty or holds the empty string.
Unusable(equivs) == equivs = <<>> \/ \E i \in 1..Len(equivs) : equivs[i] = <<>>

\* C9: ReviewItem.parse (through get_equivs) never yields, for a side that
\* has no scored text, an equivalence set that is empty or that holds the
\* empty string.
\* Violated: the line ";" is parsed into an item whose sides both accept "".
C9_NoEmptyEquivalence ==
    pc = "parsed" =>
        /\ NoScoredText(side(item[1].line, 0)) => ~Unusable(item[1].lang1_equivs)
        /\ NoScoredText(side(item[1].line, 1)) => ~Unusable(item[1].lang2_equivs)


(***************************************************************************)
(* Claims about malformed annotations, checked under SpecLang.             *)
(***************************************************************************)
\* The parentheses of t from position i on, entered at nesting depth d, are
\* balanced and never nested: every "(" is met at depth 0, every ")" at
\* depth 1, and the text ends at depth 0.
RECURSIVE ParenthesesOk(_, _, _)
ParenthesesOk(t, i, d) ==
    IF i > Len(t) THEN d = 0
    ELSE IF t[i] = "(" THEN d = 0 /\ ParenthesesOk(t, i + 1, 1)
    ELSE IF t[i] = ")" THEN d = 1 /\ ParenthesesOk(t, i + 1, 0)
    ELSE ParenthesesOk(t, i + 1, d)

\* A side fragment whose parentheses are unbalanced or nested.
Malformed(t) == ~ParenthesesOk(t, 1, 0)

\* C11: get_extra and get_equivs return an annotation string and an
\* equivalence set only for a fragment whose parentheses are balanced and not
\* nested; for an unbalanced or nested fragment they raise instead.
\* Violated: get_extra("(") returns "" and get_equivs("(") returns ["("].
C11_MalformedRaises ==
    pc \in {"get_extra", "get_equivs"} => ~Malformed(text)


(***************************************************************************)
(* Claims about ReviewItem identity, checked under SpecFile.               *)
(***************************************************************************)
\* Built from the same line text and the same two languages.
SameOrigin(a, b) == a.line = b.line /\ a.lang1 = b.lang1 /\ a.lang2 = b.lang2

\* C14: two ReviewItems built from the same line text and the same two
\* languages compare equal and hash equal, so that a set both are added to
\* holds one item, whichever equivalents were chosen when each was parsed.
\* Violated: "a|b;(x) a/b" parsed twice with different choices gives two
\* items of equal hash that compare unequal, and the set holds both.
C14_OneItemPerLine ==
    (pc = "parsed_again" /\ SameOrigin(item[1], item[2])) =>
        /\ item_eq(item[1], item[2])
        /\ item_hash(item[1]) = item_hash(item[2])
        /\ Cardinality(set_add(set_add({}, item[1]), item[2])) = 1


(***************************************************************************)
(* HintMasker                                                              *)
(*                                                                         *)
(* src/_Review_Vocab.py holds no hint masker: mask is modelled from        *)
(* section 4.6 of the specification.                                       *)
(***************************************************************************)
MaxAnswerLen == 4     \* every answer over MaskAlphabet up to this length
MaxHint == 5          \* hint strengths 0..MaxHint

\* The structural characters: never masked, never counted.
Structural == {" ", "'"}

\* The mask symbol.
MaskSymbol == "*"

\* The positions of the maskable characters of an answer.
maskable_positions(a) == {i \in 1..Len(a) : a[i] \notin Structural}

\* clamp(n, lo, hi)
clamp(n, lo, hi) == IF n < lo THEN lo ELSE IF n > hi THEN hi ELSE n

\* A count of visible characters that caps the hint strength by the number
\* of maskable characters and does nothing else.
reveal_count_capped(a, n) ==
    LET maskable == Cardinality(maskable_positions(a))
    IN  IF n > maskable THEN maskable ELSE n

\* The number of characters mask leaves visible: the hint strength clamped to
\* [1, maskable - 1] when maskable > 1, else the single character (if any).
reveal_count(a, n) ==
    LET maskable == Cardinality(maskable_positions(a))
    IN  IF maskable > 1 THEN clamp(n, 1, maskable - 1) ELSE maskable

\* The sets of positions the pseudo-random draw without replacement can give.
draws(a, n) ==
    {S \in SUBSET maskable_positions(a) : Cardinality(S) = reveal_count(a, n)}

\* The masked string for a draw S: every maskable character outside S is
\* replaced with the mask symbol.
mask_with(a, S) ==
    [i \in 1..Len(a) |->
        IF a[i] \in Structural \/ i \in S THEN a[i] ELSE MaskSymbol]

MaskAlphabet == {"a", "b", " ", "'", "*"}

InitMask ==
    /\ pc = "start"
    /\ answer \in StringsUpTo(MaskAlphabet, MaxAnswerLen)
    /\ hint_strength \in 0..MaxHint
    /\ visible = {}
    /\ masked = <<>>
    /\ LangIdle
    /\ CheckIdle
    /\ FileIdle
    /\ AudioIdle
    /\ ReviewIdle

\* masked = HintMasker.mask(answer, hint_strength)
Mask ==
    /\ pc = "start"
    /\ pc' = "mask"
    /\ \E S \in draws(answer, hint_strength) :
           /\ visible' = S
           /\ masked' = mask_with(answer, S)
    /\ UNCHANGED <<answer, hint_strength, langVars, checkVars, fileVars, audioVars,
                   reviewVars>>

NextMask == Mask

SpecMask == InitMask /\ [][NextMask]_vars

(***************************************************************************)
(* Claims about HintMasker, checked under SpecMask.                        *)
(***************************************************************************)
\* The maskable positions of the answer that the masked string shows.
Shown == {i \in maskable_positions(answer) : masked[i] # MaskSymbol}

\* C15: for an answer with more than one maskable character (one that is
\* neither space nor apostrophe), mask(answer, n) leaves exactly
\* clamp(n, 1, maskable - 1) maskable characters visible, replaces every other
\* maskable character with '*' and leaves every space and apostrophe as it
\* is, whatever positions are drawn.  (A '*' of the answer itself reads the
\* same visible or masked, so the characters shown are counted for answers
\* that hold none.)
C15_MaskRevealsClamped ==
    LET maskable == Cardinality(maskable_positions(answer))
        n == clamp(hint_strength, 1, maskable - 1)
    IN  (pc = "mask" /\ maskable > 1) =>
            /\ Len(masked) = Len(answer)
            /\ visible \subseteq maskable_positions(answer)
            /\ Cardinality(visible) = n
            /\ \A i \in 1..Len(answer) :
                   /\ answer[i] \in Structural => masked[i] = answer[i]
                   /\ i \in visible => masked[i] = answer[i]
                   /\ i \in maskable_positions(answer) \ visible => masked[i] = "*"
            /\ (\A i \in 1..Len(answer) : answer[i] # "*") =>
                   Cardinality(Shown) = n

\* A call whose hint strength is clamped from above, on an answer with a
\* space and an apostrophe, where the draw is not the leftmost positions.
C15_Witness ==
    /\ pc = "mask"
    /\ Cardinality(maskable_positions(answer)) = 2
    /\ hint_strength > 1
    /\ \E i, j \in 1..Len(answer) : answer[i] = " " /\ answer[j] = "'"
    /\ Cardinality(Shown) = 1
    /\ \E i \in maskable_positions(answer) : i \notin visible /\ i + 1 \in visible


(***************************************************************************)
(* Audio: talk, its playback threads and wait_talk.                        *)
(*                                                                         *)
(* pc is the position of the calling thread; every call of talk adds a     *)
(* record to talks, whose field thread is the position of the playback     *)
(* thread of that call: "waiting" (started, not yet holding _TALK_LOCK),   *)
(* "playing" (inside playsound, holding the lock), "done", or "unstarted"  *)
(* (Thread.start raised and talk warned).                                  *)
(***************************************************************************)
MaxTalks == 3         \* at most this many calls of Audio.talk

\* CACHE_TALK, the default of talk's cache argument, which no caller passes.
CACHE_TALK == TRUE

\* The texts talked: each has a talk file of its own.
TalkTexts == {"lang1_choice", "lang2_choice"}

\* Lock.locked()
locked(l) == l # 0

\* An acquire that does not look at the lock.
can_acquire_always(l) == TRUE

\* Lock.acquire, entered by "with Audio._TALK_LOCK": passes once unlocked.
can_acquire(l) == ~locked(l)

\* Thread.join: passes once the thread has ended.
joined(thread) == thread = "done"

\* The positions of the calling thread between two calls.
Ready == {"start", "talk_returned", "wait_talk_returned"}

InitAudio ==
    /\ pc = "start"
    /\ talk_lock = 0
    /\ talks = <<>>
    /\ talkfiles \in SUBSET TalkTexts
    /\ LangIdle
    /\ CheckIdle
    /\ FileIdle
    /\ MaskIdle
    /\ ReviewIdle

\* Audio.talk(t, lang, wait=w) up to t.start(): the talk file is made if
\* missing and the playback thread is started; without wait the call returns.
Talk ==
    /\ pc \in Ready
    /\ Len(talks) < MaxTalks
    /\ \E t \in TalkTexts, w \in BOOLEAN :
           /\ talkfiles' = talkfiles \cup {t}
           /\ talks' = Append(talks, [talkfile |-> t, wait |-> w,
                                      thread |-> "waiting", returned |-> ~w])
           /\ pc' = IF w THEN "join" ELSE "talk_returned"
    /\ UNCHANGED <<talk_lock, langVars, checkVars, fileVars, maskVars,
                   reviewVars>>

\* Audio.talk where Thread.start raises: the call warns and returns.
TalkFails ==
    /\ pc \in Ready
    /\ Len(talks) < MaxTalks
    /\ \E t \in TalkTexts, w \in BOOLEAN :
           /\ talkfiles' = talkfiles \cup {t}
           /\ talks' = Append(talks, [talkfile |-> t, wait |-> w,
                                      thread |-> "unstarted", returned |-> TRUE])
    /\ pc' = "talk_returned"
    /\ UNCHANGED <<talk_lock, langVars, checkVars, fileVars, maskVars,
                   reviewVars>>

\* t.join() of a call with wait=True, and the return of that call.
TalkJoin ==
    /\ pc = "join"
    /\ joined(talks[Len(talks)].thread)
    /\ talks' = [talks EXCEPT ![Len(talks)].returned = TRUE]
    /\ pc' = "talk_returned"
    /\ UNCHANGED <<talk_lock, talkfiles, langVars, checkVars, fileVars, maskVars,
                   reviewVars>>

\* _talk of call i enters "with Audio._TALK_LOCK" and calls playsound.
Acquire ==
    /\ \E i \in 1..Len(talks) :
           /\ talks[i].thread = "waiting"
           /\ can_acquire(talk_lock)
           /\ talk_lock' = i
           /\ talks' = [talks EXCEPT ![i].thread = "playing"]
    /\ UNCHANGED <<pc, talkfiles, langVars, checkVars, fileVars, maskVars,
                   reviewVars>>

\* playsound of call i returns (or raises); the talk file is deleted unless
\* cached, the lock is released and the thread ends.
Finish ==
    /\ \E i \in 1..Len(talks) :
           /\ talks[i].thread = "playing"
           /\ talk_lock' = 0
           /\ talks' = [talks EXCEPT ![i].thread = "done"]
           /\ talkfiles' \in
                  IF CACHE_TALK THEN {talkfiles}
                  ELSE {talkfiles, talkfiles \ {talks[i].talkfile}}
    /\ UNCHANGED <<pc, langVars, checkVars, fileVars, maskVars,
                   reviewVars>>

\* Audio.wait_talk() is called.
WaitTalk ==
    /\ pc \in Ready
    /\ pc' = "wait_talk"
    /\ UNCHANGED <<audioVars, langVars, checkVars, fileVars, maskVars,
                   reviewVars>>

\* wait_talk tests _TALK_LOCK.locked(): it sleeps if locked, else returns.
WaitTalkPoll ==
    /\ pc = "wait_talk"
    /\ pc' = IF locked(talk_lock) THEN "sleep" ELSE "wait_talk_returned"
    /\ UNCHANGED <<audioVars, langVars, checkVars, fileVars, maskVars,
                   reviewVars>>

\* time.sleep(0.1) in wait_talk ends.
Sleep ==
    /\ pc = "sleep"
    /\ pc' = "wait_talk"
    /\ UNCHANGED <<audioVars, langVars, checkVars, fileVars, maskVars,
                   reviewVars>>

NextAudio ==
    Talk \/ TalkFails \/ TalkJoin \/ Acquire \/ Finish \/ WaitTalk \/ WaitTalkPoll \/ Sleep

SpecAudio == InitAudio /\ [][NextAudio]_vars

(***************************************************************************)
(* Claims about Audio, checked under SpecAudio.                            *)
(***************************************************************************)
\* The calls whose playback thread is at one of the given positions.
TalksAt(positions) == {i \in 1..Len(talks) : talks[i].thread \in positions}

\* C17: at most one playback thread is inside playsound at any time, and a
\* call talk(..., wait=True) that has returned has no playback of its own
\* still waiting for the lock or playing.
C17_PlaybackExclusive ==
    /\ Cardinality(TalksAt({"playing"})) <= 1
    /\ \A i \in 1..Len(talks) :
           (talks[i].wait /\ talks[i].returned) =>
               i \notin TalksAt({"waiting", "playing"})

\* A call with wait=True has returned after its playback, and of two later
\* calls one is playing while the other waits for the lock.
C17_Witness ==
    /\ \E i \in 1..Len(talks) :
           talks[i].wait /\ talks[i].returned /\ talks[i].thread = "done"
    /\ TalksAt({"playing"}) # {}
    /\ TalksAt({"waiting"}) # {}

\* C18: wait_talk returns only when the playback of every earlier talk call
\* has finished: at its return no playback thread is waiting for the lock or
\* playing.
\* Violated: talk(wait=False) then wait_talk(): the thread has not yet taken
\* the lock, locked() is False and wait_talk returns at once.
C18_WaitTalkWaitsForAll ==
    pc = "wait_talk_returned" => TalksAt({"waiting", "playing"}) = {}


(***************************************************************************)
(* Review sessions: ModeBase.review with PracticeMode and TranslateMode.   *)
(*                                                                         *)
(* pc is the position of the session: "menu" (no review in progress),      *)
(* "iter" (at the head of the loop of review()), "practice_ask",           *)
(* "listen_ask" and "translate_ask" (at q.ask_str of that loop) and        *)
(* "ask_repeat" (at q.ask_yesno of PracticeMode._review_end).  The locals  *)
(* response and score of the three loops are the variables of these names. *)
(* What q.echo and q.alert print is not kept, except the banner; the       *)
(* playback Audio.talk starts is the subject of SpecAudio.                 *)
(***************************************************************************)
MaxReviewNum == 2     \* config.reviewnum is 1..MaxReviewNum
MaxDepth == 3         \* at most this many nested calls of review()
MaxAttempts == 3      \* at most this many counted attempts in a phase

\* PracticeModeConfig(): the defaults of its fields.
PracticeModeConfig ==
    [reviewnum |-> 10, shuffle |-> FALSE, to_lang1 |-> FALSE, min_score |-> 90,
     missed_file |-> <<>>]

\* TranslateModeConfig(): the defaults of its fields.
TranslateModeConfig ==
    [reviewnum |-> 10, shuffle |-> FALSE, listen_min_score |-> 90,
     listen_attempts_before_reveal |-> 2, translate_attempts_before_reveal |-> 2,
     translate_min_score |-> 90, skip_translate |-> FALSE]

\* A word, and the same word typed with a letter missing.
Yellow == <<"y", "e", "l", "l", "o", "w">>
Yelow == <<"y", "e", "l", "o", "w">>

\* The vocabulary file of the provider.
ProviderContent ==
    Yellow \o <<";">> \o Yellow \o <<"\n">>
        \o <<"#", "x", "\n">>
        \o <<"a", ";", "b", "/", "c", "\n">>

\* random.sample(ls, k): k elements of ls at distinct positions, in any order.
sample(ls, k) ==
    { [i \in 1..k |-> ls[p[i]]] :
        p \in {f \in [1..k -> 1..Len(ls)] :
                  \A i, j \in 1..k : i # j => f[i] # f[j]} }

\* ls[:n] for n >= 0
slice_to(ls, n) == SubSeq(ls, 1, IF n <= Len(ls) THEN n ELSE Len(ls))

\* [ReviewItem.parse(l, lang1, lang2) for l in review_lines]: the lists it
\* can give, one per outcome of the random choices.
parse_each(review_lines, lang1, lang2) ==
    LET n == Len(review_lines)
        all == UNION {parse(review_lines[i], lang1, lang2) : i \in 1..n}
    IN  {its \in [1..n -> all] :
            \A i \in 1..n : its[i] \in parse(review_lines[i], lang1, lang2)}

\* SingleFileProvider.get_items: the lists it can return.
get_items(reviewnum, shuffle) ==
    LET ls == get_valid_lines(ProviderContent)
        samplenum == IF reviewnum <= Len(ls) THEN reviewnum ELSE Len(ls)
        review_lines == IF shuffle THEN sample(ls, samplenum)
                        ELSE {slice_to(ls, reviewnum)}
    IN  UNION {parse_each(rl, LanguageName, LanguageName) : rl \in review_lines}

\* The orders in which a set can be iterated.
orderings(s) ==
    {f \in [1..Cardinality(s) -> s] :
        \A i, j \in 1..Cardinality(s) : i # j => f[i] # f[j]}

\* A _review_start of PracticeMode that always asks the provider.
practice_review_start_provider(rep, reviewnum, shuffle) ==
    get_items(reviewnum, shuffle)

\* PracticeMode._review_start: the values it can give self._review.
practice_review_start(rep, reviewnum, shuffle) ==
    IF rep # None THEN orderings(rep[1]) ELSE get_items(reviewnum, shuffle)

\* An end of iteration that is reported once one item has been yielded.
iter_done_after_first(r, p) == p >= 1 \/ p >= Len(r)

\* _iter_review is exhausted: the for loop of review() ends.
iter_done(r, p) == p >= Len(r)

\* PracticeMode._get_question_extra_answers: the answers.
practice_answers(it, to_lang1) ==
    IF ~to_lang1 THEN it.lang2_equivs ELSE it.lang1_equivs

\* The item handed to _review_item.
Item == review[pos]

\* What q.ask_str can return.
ReviewResponses ==
    { <<>>, <<"a">>, <<"b">>, <<"c">>, Yelow, Yellow }

Configs(m) ==
    IF m = "PracticeMode"
    THEN { [PracticeModeConfig EXCEPT !.reviewnum = n, !.shuffle = s, !.to_lang1 = t] :
             n \in 1..MaxReviewNum, s \in BOOLEAN, t \in BOOLEAN }
    ELSE { [TranslateModeConfig EXCEPT !.reviewnum = n, !.shuffle = s,
                                       !.skip_translate = k] :
             n \in 1..MaxReviewNum, s \in BOOLEAN, k \in BOOLEAN }

\* The log at the start of a pass whose items came from origin.
StartLog(origin, prev_end, prev_missed) ==
    [log EXCEPT !.origin = origin, !.prev_end = prev_end,
                !.prev_missed = prev_missed, !.below = {}, !.banner = <<>>,
                !.presented = <<>>, !.completed = 0, !.ended = FALSE]

\* ModeBase.__init__ and PracticeMode.__init__
InitReview ==
    /\ pc = "menu"
    /\ mode \in {"PracticeMode", "TranslateMode"}
    /\ config \in Configs(mode)
    /\ review = <<>>
    /\ curr_num = 0
    /\ missed = {}
    /\ repeat = None
    /\ pos = 0
    /\ correct = FALSE
    /\ attempts = 0
    /\ depth = 0
    /\ log = NoLog
    /\ LangIdle
    /\ CheckIdle
    /\ FileIdle
    /\ MaskIdle
    /\ AudioIdle

\* review() is called from the menu: _review_start.
StartReview ==
    /\ pc = "menu"
    /\ pc' = "iter"
    /\ depth' = 1
    /\ pos' = 0
    /\ IF mode = "PracticeMode"
       THEN /\ missed' = {}
            /\ review' \in practice_review_start(repeat, config.reviewnum,
                                                 config.shuffle)
            /\ log' = StartLog(IF repeat # None THEN "repeat" ELSE "provider",
                               log.prev_end, log.prev_missed)
       ELSE /\ missed' = missed
            /\ review' \in get_items(config.reviewnum, config.shuffle)
            /\ log' = StartLog("provider", log.prev_end, log.prev_missed)
    /\ UNCHANGED <<mode, config, curr_num, repeat, correct, attempts,
                   langVars, checkVars, fileVars, maskVars, audioVars>>

\* The for loop of review() takes the next item: _curr_num, reset_banner and
\* _review_item up to its first q.ask_str.
PresentItem ==
    /\ pc = "iter"
    /\ ~iter_done(review, pos)
    /\ pos' = pos + 1
    /\ curr_num' = pos + 1
    /\ log' = [log EXCEPT !.banner = Append(@, <<curr_num', Len(review)>>),
                          !.presented = Append(@, review[pos + 1])]
    /\ correct' = FALSE
    /\ attempts' = 0
    /\ score' = 0
    /\ response' = <<>>
    /\ pc' = IF mode = "PracticeMode" THEN "practice_ask" ELSE "listen_ask"
    /\ UNCHANGED <<mode, config, review, missed, repeat, depth, valid_answers,
                   min_valid_score, valid, sanitized,
                   langVars, fileVars, maskVars, audioVars>>

\* PracticeMode._review_item: one turn of its loop.
PracticeRespond ==
    /\ pc = "practice_ask"
    /\ \E r \in ReviewResponses :
           LET answers == practice_answers(Item, config.to_lang1)
               s == get_score(r, answers)
               c == s >= config.min_score
           IN  /\ response' = r
               /\ valid_answers' = answers
               /\ score' = s
               /\ correct' = c
               /\ missed' = IF c THEN missed ELSE set_add(missed, Item)
               /\ pc' = IF c THEN "iter" ELSE "practice_ask"
               /\ log' = [log EXCEPT
                     !.below = IF s < config.min_score THEN @ \cup {Item} ELSE @,
                     !.completed = IF c THEN @ + 1 ELSE @,
                     !.last = [phase |-> "practice", graded |-> TRUE, score |-> s,
                               min |-> config.min_score, correct |-> c,
                               again |-> pc' = "practice_ask"]]
    /\ UNCHANGED <<mode, config, review, curr_num, repeat, pos, attempts, depth,
                   min_valid_score, valid, sanitized,
                   langVars, fileVars, maskVars, audioVars>>

\* TranslateMode._do_listen: one turn of its loop; when the loop ends, the
\* rest of _review_item up to the first q.ask_str of _do_translate, or to
\* the end of the item if skip_translate.
ListenRespond ==
    /\ pc = "listen_ask"
    /\ \E r \in ReviewResponses :
           LET graded == r # <<>>
               answers == <<Item.lang2_choice>>
               s == IF graded THEN get_score(r, answers) ELSE score
               c == IF graded THEN s >= config.listen_min_score ELSE correct
               a == IF graded /\ ~c THEN attempts + 1 ELSE attempts
               again == s # 100
           IN  /\ a <= MaxAttempts
               /\ response' = r
               /\ valid_answers' = IF graded THEN answers ELSE valid_answers
               /\ score' = s
               /\ correct' = IF again THEN c ELSE FALSE
               /\ attempts' = IF again THEN a ELSE 0
               /\ pc' = IF again THEN "listen_ask"
                        ELSE IF ~config.skip_translate THEN "translate_ask"
                        ELSE "iter"
               /\ log' = [log EXCEPT
                     !.completed = IF pc' = "iter" THEN @ + 1 ELSE @,
                     !.last = [phase |-> "listen", graded |-> graded, score |-> s,
                               min |-> config.listen_min_score, correct |-> c,
                               again |-> again]]
    /\ UNCHANGED <<mode, config, review, curr_num, missed, repeat, pos, depth,
                   min_valid_score, valid, sanitized,
                   langVars, fileVars, maskVars, audioVars>>

\* TranslateMode._do_translate: one turn of its loop; when the loop ends, the
\* rest of _review_item.
TranslateRespond ==
    /\ pc = "translate_ask"
    /\ \E r \in ReviewResponses :
           LET answers == Item.lang1_equivs
               s == get_score(r, answers)
               c == s >= config.translate_min_score
               a == IF ~c THEN attempts + 1 ELSE attempts
           IN  /\ a <= MaxAttempts
               /\ response' = r
               /\ valid_answers' = answers
               /\ score' = s
               /\ correct' = c
               /\ attempts' = a
               /\ pc' = IF c THEN "iter" ELSE "translate_ask"
               /\ log' = [log EXCEPT
                     !.completed = IF c THEN @ + 1 ELSE @,
                     !.last = [phase |-> "translate", graded |-> TRUE, score |-> s,
                               min |-> config.translate_min_score, correct |-> c,
                               again |-> pc' = "translate_ask"]]
    /\ UNCHANGED <<mode, config, review, curr_num, missed, repeat, pos, depth,
                   min_valid_score, valid, sanitized,
                   langVars, fileVars, maskVars, audioVars>>

\* The for loop of review() ends: _review_end.  ModeBase's does nothing and
\* review() returns; PracticeMode's clears _repeat and, if nothing was
\* missed, returns as well (every review() in progress then returns), else
\* asks whether to repeat.
EndReview ==
    /\ pc = "iter"
    /\ iter_done(review, pos)
    /\ IF mode = "PracticeMode"
       THEN /\ repeat' = None
            /\ IF Cardinality(missed) = 0
               THEN /\ pc' = "menu"
                    /\ depth' = 0
                    /\ log' = [log EXCEPT !.ended = TRUE, !.prev_end = "norepeat",
                                          !.prev_missed = missed]
               ELSE /\ pc' = "ask_repeat"
                    /\ depth' = depth
                    /\ log' = [log EXCEPT !.ended = TRUE]
       ELSE /\ repeat' = repeat
            /\ pc' = "menu"
            /\ depth' = 0
            /\ log' = [log EXCEPT !.ended = TRUE, !.prev_end = "norepeat",
                                  !.prev_missed = {}]
    /\ UNCHANGED <<mode, config, review, curr_num, missed, pos, correct, attempts,
                   langVars, checkVars, fileVars, maskVars, audioVars>>

\* "Repeat missed items?" is answered yes: _repeat = _missed, and review()
\* is called again: its _review_start.
RepeatYes ==
    /\ pc = "ask_repeat"
    /\ depth < MaxDepth
    /\ repeat' = <<missed>>
    /\ missed' = {}
    /\ review' \in practice_review_start(repeat', config.reviewnum, config.shuffle)
    /\ pos' = 0
    /\ depth' = depth + 1
    /\ pc' = "iter"
    /\ log' = StartLog(IF repeat' # None THEN "repeat" ELSE "provider",
                       "repeat", missed)
    /\ UNCHANGED <<mode, config, curr_num, correct, attempts,
                   langVars, checkVars, fileVars, maskVars, audioVars>>

\* "Repeat missed items?" is answered no: every review() in progress returns.
RepeatNo ==
    /\ pc = "ask_repeat"
    /\ pc' = "menu"
    /\ depth' = 0
    /\ log' = [log EXCEPT !.prev_end = "norepeat", !.prev_missed = missed]
    /\ UNCHANGED <<mode, config, review, curr_num, missed, repeat, pos, correct,
                   attempts, langVars, checkVars, fileVars, maskVars, audioVars>>

NextReview ==
    \/ StartReview
    \/ PresentItem
    \/ PracticeRespond
    \/ ListenRespond
    \/ TranslateRespond
    \/ EndReview
    \/ RepeatYes
    \/ RepeatNo

SpecReview == InitReview /\ [][NextReview]_vars


(***************************************************************************)
(* Claims about review sessions, checked under SpecReview.                 *)
(***************************************************************************)
\* The elements of a list.
Elements(seq) == {seq[i] : i \in 1..Len(seq)}

\* C12: in a pass of ModeBase.review the items (those the provider returned,
\* unless the pass repeats missed items) are presented one at a time in list
\* order, the k-th presentation being the k-th item with the banner "k of n",
\* n the number of items, so that each item is presented once and the counter
\* runs through 1..n; and _review_end has run only if every item has been
\* presented and the review of every item has completed.
C12_OrderedOncePerPass ==
    LET n == Len(review)
        k == Len(log.presented)
    IN  /\ log.origin = "provider" =>
               review \in get_items(config.reviewnum, config.shuffle)
        /\ k <= n
        /\ Len(log.banner) = k
        /\ \A i \in 1..k :
               /\ log.presented[i] = review[i]
               /\ log.banner[i] = <<i, n>>
        /\ k > 0 => curr_num = k
        /\ log.completed <= k
        /\ pc \in {"practice_ask", "listen_ask", "translate_ask"} =>
               log.completed = k - 1
        /\ log.ended => (k = n /\ log.completed = n)

\* A pass over two items has ended, in TranslateMode with both phases.
C12_Witness ==
    /\ mode = "TranslateMode"
    /\ ~config.skip_translate
    /\ log.ended
    /\ Len(review) = 2
    /\ log.banner = <<<<1, 2>>, <<2, 2>>>>
    /\ log.completed = 2

\* The responses that a phase has graded.
Graded == log.last.graded

\* C13: in PracticeMode and in the listen and translate phases of
\* TranslateMode a graded response whose score is at or above the phase's
\* configured minimum is classified correct and ends the prompting of the
\* phase, and a response is followed by another prompt for the same item only
\* if its score is below the minimum.
\* Violated: in the listen phase "yelow" for "yellow" scores 91, is
\* classified correct at listen_min_score 90, and the phase prompts again.
C13_MinimumEndsPrompting ==
    Graded =>
        /\ log.last.score >= log.last.min => (log.last.correct /\ ~log.last.again)
        /\ log.last.again => log.last.score < log.last.min

\* C16: in PracticeMode, when a pass has ended its missed set holds exactly
\* the items of the pass that received a response scoring below min_score; a
\* pass started by accepting the repeat reviews exactly the items missed in
\* the pass before, each once, and starts with an empty missed set; and a
\* pass that follows a pass ended without repeat has its items from the
\* provider.
C16_MissedAndRepeat ==
    mode = "PracticeMode" =>
        /\ log.below \subseteq Elements(log.presented)
        /\ log.ended => missed = log.below
        /\ (depth > 0 /\ log.prev_end = "repeat") =>
               /\ log.origin = "repeat"
               /\ Elements(review) = log.prev_missed
               /\ Len(review) = Cardinality(log.prev_missed)
               /\ log.presented = <<>> => missed = {}
        /\ (depth > 0 /\ log.prev_end = "norepeat") =>
               /\ log.origin = "provider"
               /\ review \in get_items(config.reviewnum, config.shuffle)
        /\ pc = "menu" => repeat = None

\* A repeat pass over two missed items has ended with one of them missed
\* again, the other answered at a score between min_score and 100.
C16_Witness ==
    /\ mode = "PracticeMode"
    /\ pc = "ask_repeat"
    /\ log.origin = "repeat"
    /\ Cardinality(log.prev_missed) = 2
    /\ Cardinality(missed) = 1
    /\ score >= config.min_score
    /\ score < 100

=============================================================================
